---- MODULE Spec2Model ----
(***************************************************************************)
(* Fetch-and-merge pipeline of the liquidation analytics repository:       *)
(* paginated retrieval (src/fetcher.py, src/user_behavior_fetcher.py),     *)
(* normalisation, and the parquet stores of liquidations and user actions. *)
(*                                                                         *)
(* A table (pandas DataFrame) is a record [amount_col, rows]: rows is the  *)
(* sequence of its rows and amount_col the name under which the scaled     *)
(* amount column is stored ("none" for a frame without columns).           *)
(* A decimal number is a fraction [num, den] with den > 0.                 *)
(***************************************************************************)
EXTENDS Integers, Sequences, FiniteSets, TLC

\* ---------------------------------------------------------------- bounds
\* Page size of one request (fetcher.py:23 sets 1000; scaled down).
BATCH_SIZE == 2
\* Most records a volatile upstream hands out within one run of a job.
MaxRaw == 2
\* Most entities a stable upstream holds.
MaxList == 3

\* ------------------------------------------------------- program constants
MAX_RETRIES == 3
\* fetcher.py RATE_LIMIT_DELAY = 0.5 s, in tenths of a second
RATE_LIMIT_DELAY == 5
\* user_behavior_fetcher.py RATE_LIMIT_DELAY = 0.3 s, in tenths of a second
UA_RATE_LIMIT_DELAY == 3

WBTC_ADDRESS == "0x2260fac5e5542a773aa44fbcfedf7c193bc2c599"
CBBTC_ADDRESS == "0xcbb7c0000ab88b473b1f5afd9ef808440eed33bf"

ASSETS ==
  [ wbtc  |-> [address |-> WBTC_ADDRESS,  symbol |-> "wBTC",
               decimals |-> 8, subgraphs |-> <<"V2", "V3">>],
    cbbtc |-> [address |-> CBBTC_ADDRESS, symbol |-> "cbBTC",
               decimals |-> 8, subgraphs |-> <<"V3">>] ]

AssetKeys == DOMAIN ASSETS

\* keys that are not in the registry (the lookup is case-sensitive)
UnknownKeys == {"dai", "WBTC"}

\* raise KeyError(f"Unknown asset: {asset_key}. ...")
KeyError == [raised |-> "KeyError"]

\* a lookup that falls back to wbtc for a key it does not know
get_asset_config_or_wbtc(asset_key) ==
  IF asset_key \in DOMAIN ASSETS THEN ASSETS[asset_key] ELSE ASSETS.wbtc

get_asset_config(asset_key) ==
  IF asset_key \in DOMAIN ASSETS THEN ASSETS[asset_key] ELSE KeyError

\* ------------------------------------------------------------------ paths
\* path.exists() is false: the content of a path that holds no file
NoFile == [amount_col |-> "no file", rows |-> <<>>]

_parquet_path(asset_key) == <<asset_key, "_liquidations.parquet">>
_actions_parquet_path(asset_key) == <<asset_key, "_user_actions.parquet">>
OldLiquidationsPath == <<"", "liquidations.parquet">>
OldActionsPath == <<"", "user_actions.parquet">>

Paths ==
  {_parquet_path(a) : a \in AssetKeys \cup UnknownKeys}
    \cup {_actions_parquet_path(a) : a \in AssetKeys \cup UnknownKeys}
    \cup {OldLiquidationsPath, OldActionsPath}

\* ----------------------------------------------------------------- tables
\* pd.DataFrame(): no rows, no columns
EmptyFrame == [amount_col |-> "none", rows |-> <<>>]

\* a frame in the current shape (the amount column is collateral_amount_btc)
Frame(rows) == [amount_col |-> "collateral_amount_btc", rows |-> rows]

IsEmpty(df) == df.rows = <<>>

IdsOf(rows) == {rows[i].id : i \in DOMAIN rows}

RowsWithId(rows, x) == {i \in DOMAIN rows : rows[i].id = x}

RECURSIVE SelectRows(_, _)
\* the rows whose index is in keep, in their order
SelectRows(rows, keep) ==
  IF rows = <<>> THEN <<>>
  ELSE LET n == Len(rows)
           front == SelectRows(SubSeq(rows, 1, n - 1), keep)
       IN  IF n \in keep THEN Append(front, rows[n]) ELSE front

\* df.drop_duplicates(subset=["id"], keep="first"): the other precedence
DropDuplicatesKeepFirst(rows) ==
  SelectRows(rows,
    {i \in DOMAIN rows : \A j \in DOMAIN rows : j < i => rows[j].id # rows[i].id})

\* df.drop_duplicates(subset=["id"], keep="last")
DropDuplicatesKeepLast(rows) ==
  SelectRows(rows,
    {i \in DOMAIN rows : \A j \in DOMAIN rows : j > i => rows[j].id # rows[i].id})

IsSortedDesc(rows) ==
  \A i, j \in DOMAIN rows : i < j => rows[i].timestamp >= rows[j].timestamp

\* the rows left in the order they came in
KeepOrder(rows) == {rows}

\* df.sort_values("timestamp", ascending=False).reset_index(drop=True):
\* pandas sorts with an unstable algorithm by default, so every arrangement
\* of the rows that is ordered by timestamp descending is a possible result.
SortValuesDesc(rows) ==
  LET n == Len(rows)
      perms == {p \in [1..n -> 1..n] : \A i, j \in 1..n : i # j => p[i] # p[j]}
      arranged == {[i \in 1..n |-> rows[p[i]]] : p \in perms}
  IN  {s \in arranged : IsSortedDesc(s)}

\* --------------------------------------------------------------- decimals
RECURSIVE Pow10(_)
Pow10(n) == IF n = 0 THEN 1 ELSE 10 * Pow10(n - 1)

\* float(amount) / (10**decimals)
Scale(amount, decimals) == [num |-> amount, den |-> Pow10(decimals)]

\* a filter that lets a zero amount through
IsNotNegative(q) == q.num >= 0

IsPositive(q) == q.num > 0


\* --------------------------------------------------------------- upstream
\* Raw liquidation entities the subgraphs may hand out (fields of
\* LIQUIDATIONS_QUERY that the pipeline reads; timestamps in seconds).
RawLiq(id, ts, amount, who) ==
  [id |-> id, timestamp |-> ts, amount |-> amount, decimals |-> 8,
   liquidatee |-> who]

RawLiquidations ==
  { RawLiq("L1", 2000, 100000000, "0xA"),
    RawLiq("L1", 2000, 250000000, "0xA"),
    RawLiq("L2", 1000, 0, "0xA"),
    RawLiq("L2", 1000, -1, "0xB"),
    RawLiq("L3", 1000, 500000000, "0xB") }

SeqsUpTo(S, n) == UNION {[1..k -> S] : k \in 0..n}

\* The upstream either holds unchanging lists of entities, which a query
\* filters by its where clause and slices by first/skip, or it is volatile:
\* every request may be answered by any page of at most `first` matching
\* records, the entities of one page being distinct.
Volatile == [stable |-> FALSE, liquidates |-> <<>>, actions |-> <<>>]

Stable(liquidates, actions) ==
  [stable |-> TRUE, liquidates |-> liquidates, actions |-> actions]

Min(a, b) == IF a < b THEN a ELSE b

\* the page a stable upstream returns for (first, skip)
Slice(data, first, skp) ==
  IF skp >= Len(data) THEN <<>>
  ELSE SubSeq(data, skp + 1, Min(skp + first, Len(data)))


\* Raw deposit / repay entities (fields of USER_DEPOSITS_QUERY and
\* USER_REPAYS_QUERY that the pipeline reads).
RawAct(id, ts, who) ==
  [id |-> id, timestamp |-> ts, amount |-> 100000000, decimals |-> 8,
   account |-> who, asset_address |-> WBTC_ADDRESS]

RawActions ==
  { RawAct("A1", 1500, "0xA"),
    RawAct("A2", 1900, "0xA"),
    RawAct("A5", 1700, "0xA"),
    RawAct("A3", 900, "0xB"),
    RawAct("A4", 1200, "0xB") }

\* the where clause of the user queries: account, timestamp_gte, timestamp_lte
Matching(q) ==
  {e \in RawActions :
     /\ e.account = q.account
     /\ e.timestamp >= q.ts_from
     /\ e.timestamp <= q.ts_to}

\* an upstream result list names every entity once
DistinctIds(s) == \A i, j \in DOMAIN s : i # j => s[i].id # s[j].id

\* the lists of at most n entities of S
Lists(S, n) == {s \in SeqsUpTo(S, n) : DistinctIds(s)}

\* the upstreams a behaviour may run against
Upstreams ==
  {Volatile}
    \cup {Stable(d, <<>>) : d \in Lists(RawLiquidations, MaxList)}
    \cup {Stable(<<>>, d) : d \in Lists(RawActions, MaxList)}


\* ------------------------------------------------------------------ state
VARIABLES
  files,             \* DATA_DIR: path -> stored table, or NoFile
  job,               \* the running (or last) job: "none", "update", "behavior"
  pc,                \* "idle", "raised" (the job ended with an exception),
                     \* "request" (a page request is in flight),
                     \* "returned" (the page loop has returned),
                     \* "fetched" (fetch_all_liquidations has returned),
                     \* "saving" (to_parquet is writing)
  asset,             \* --asset of the scripts: the asset_key of every job
  existing,          \* update_data: the table load_parquet returned
  new_df,            \* update_data: the table fetch_all_liquidations returned
  all_raw,           \* fetch_all_liquidations: all_raw
  todo,              \* subgraph versions still to be fetched
  version,           \* version of the fetch in progress
  all_liquidations,  \* _fetch_liquidations_from_endpoint: all_liquidations
  groups,            \* fetch_user_actions: the groups from the current one on
  kind,              \* fetch_user_actions: "deposit" or "repay" being fetched
  all_rows,          \* fetch_user_actions: all_rows
  all_events,        \* _fetch_user_events: all_events
  skip,              \* page loop: skip
  attempt,           \* page loop: attempt
  upstream,          \* what the endpoints serve in this behaviour
  response,          \* the last response of the endpoint
  sleep,             \* time.sleep of the last step, tenths of a second
  lastLoad,          \* the last load_* call and what it returned
  liq_df,            \* analysis: the liquidation table handed to a function
  actions_df,        \* analysis: the action table handed to classify_users
  view,              \* analysis: the last call of a function and its result
  second             \* a second update_data invocation: where it is, the
                     \* tables it loaded and fetched, and whether it loaded
                     \* while the first invocation was running

vars ==
  <<files, job, pc, asset, existing, new_df, all_raw, todo, version,
    all_liquidations, groups, kind, all_rows, all_events, skip, attempt,
    upstream, response, sleep, lastLoad, liq_df, actions_df, view, second>>

updateVars == <<existing, new_df, all_raw, todo, all_liquidations>>

behaviorVars == <<groups, kind, all_rows, all_events>>

analysisVars == <<liq_df, actions_df, view>>

\* most rows of an action table handed to the analysis
MaxActions == 3

\* most rows of a liquidation table handed to the analysis
MaxLiquidations == 5

NoResponse == [kind |-> "none", page |-> <<>>]

NoLoad == [fn |-> "none", df |-> EmptyFrame]

NoView == [fn |-> "none"]

NotStarted ==
  [pc |-> "idle", existing |-> EmptyFrame, new_df |-> EmptyFrame,
   overlap |-> FALSE]

Exists(fs, path) == fs[path] # NoFile

\* the result list of a user query on a stable upstream
UserEventsOf(q) ==
  SelectSeq(upstream.actions,
            LAMBDA e : /\ e.account = q.account
                       /\ e.timestamp >= q.ts_from
                       /\ e.timestamp <= q.ts_to)

\* -------------------------------------------------------------- fetcher.py
\* liq["version"] = version
Tag(liq, v) ==
  [id |-> liq.id, timestamp |-> liq.timestamp, amount |-> liq.amount,
   decimals |-> liq.decimals, liquidatee |-> liq.liquidatee, version |-> v]

TagAll(page, v) == [i \in DOMAIN page |-> Tag(page[i], v)]

\* one row of _raw_to_dataframe
LiquidationRow(liq) ==
  [id |-> liq.id, version |-> liq.version, timestamp |-> liq.timestamp,
   liquidatee |-> liq.liquidatee, collateral_amount_raw |-> liq.amount,
   collateral_amount_btc |-> Scale(liq.amount, liq.decimals)]

\* _raw_to_dataframe: the set of tables it may return (one per sort order)
_raw_to_dataframe(raw_liquidations) ==
  LET rows == [i \in DOMAIN raw_liquidations |->
                 LiquidationRow(raw_liquidations[i])]
      kept == SelectRows(rows,
                {i \in DOMAIN rows : IsPositive(rows[i].collateral_amount_btc)})
  IN  IF rows = <<>> THEN {EmptyFrame}
      ELSE {Frame(s) : s \in SortValuesDesc(kept)}

\* the column rename of load_parquet / load_data
RenameLegacyColumn(df) ==
  IF df.amount_col = "collateral_amount_wbtc"
  THEN [df EXCEPT !.amount_col = "collateral_amount_btc"]
  ELSE df

\* a load that falls back to the legacy file whatever the asset
load_parquet_any_asset(fs, asset_key) ==
  LET path == _parquet_path(asset_key) IN
  IF ~Exists(fs, path) /\ Exists(fs, OldLiquidationsPath)
  THEN LET df == RenameLegacyColumn(fs[OldLiquidationsPath])
       IN  [df |-> df, files |-> [fs EXCEPT ![path] = df]]
  ELSE IF ~Exists(fs, path)
  THEN [df |-> EmptyFrame, files |-> fs]
  ELSE [df |-> RenameLegacyColumn(fs[path]), files |-> fs]

\* load_parquet: the table returned and the files it leaves behind
load_parquet(fs, asset_key) ==
  LET path == _parquet_path(asset_key) IN
  IF ~Exists(fs, path) /\ asset_key = "wbtc" /\ Exists(fs, OldLiquidationsPath)
  THEN LET df == RenameLegacyColumn(fs[OldLiquidationsPath])
       IN  [df |-> df, files |-> [fs EXCEPT ![path] = df]]
  ELSE IF ~Exists(fs, path)
  THEN [df |-> EmptyFrame, files |-> fs]
  ELSE [df |-> RenameLegacyColumn(fs[path]), files |-> fs]

\* save_parquet
save_parquet(fs, df, asset_key) == [fs EXCEPT ![_parquet_path(asset_key)] = df]

\* a save of whatever was fetched, over whatever was stored
CombinedIsNew(old, new) == {new}

\* update_data, lines 212-221: the tables `combined` may be
Combined(old, new) ==
  IF IsEmpty(old) THEN {new}
  ELSE IF IsEmpty(new) THEN {old}
  ELSE {Frame(s) :
          s \in SortValuesDesc(DropDuplicatesKeepLast(old.rows \o new.rows))}

\* is version v among the subgraphs of the asset
Serves(config, v) == \E i \in DOMAIN config.subgraphs : config.subgraphs[i] = v

\* the versions fetch_all_liquidations queries, in its order
SubgraphsOf(config) == SelectSeq(<<"V2", "V3">>, LAMBDA v : Serves(config, v))

\* ------------------------------------------------------------ the page loop
\* (lines 43-90 of fetcher.py and lines 44-91 of user_behavior_fetcher.py)

\* entry of a page loop
BeginLoop ==
  /\ skip' = 0
  /\ attempt' = 1
  /\ response' = NoResponse
  /\ pc' = "request"

\* the pages the endpoint may answer the request in flight with: `list` is
\* the result list on a stable upstream, S the matching entities, and room
\* the number of records a volatile upstream may still hand out in this run
PagesNow(list, S, room) ==
  IF upstream.stable THEN {Slice(list, BATCH_SIZE, skip)}
  ELSE Lists(S, Min(BATCH_SIZE, room))

\* a retry loop that gives up one failure later
RequestFailedOnceMore(delay) ==
  /\ pc = "request"
  /\ response' = [kind |-> "failure", page |-> <<>>]
  /\ IF attempt = MAX_RETRIES + 1
     THEN /\ pc' = "returned"
          /\ sleep' = 0
          /\ UNCHANGED attempt
     ELSE /\ attempt' = attempt + 1
          /\ sleep' = delay * attempt
          /\ UNCHANGED pc
  /\ UNCHANGED skip

\* requests.RequestException on the request in flight
RequestFailed(delay) ==
  /\ pc = "request"
  /\ response' = [kind |-> "failure", page |-> <<>>]
  /\ IF attempt = MAX_RETRIES
     THEN /\ pc' = "returned"
          /\ sleep' = 0
          /\ UNCHANGED attempt
     ELSE /\ attempt' = attempt + 1
          /\ sleep' = delay * attempt
          /\ UNCHANGED pc
  /\ UNCHANGED skip

\* an error list handled as a transport failure is: by another attempt
ErrorsRetried ==
  /\ pc = "request"
  /\ response' = [kind |-> "errors", page |-> <<>>]
  /\ IF attempt = MAX_RETRIES
     THEN /\ pc' = "returned"
          /\ sleep' = 0
          /\ UNCHANGED attempt
     ELSE /\ attempt' = attempt + 1
          /\ sleep' = 0
          /\ UNCHANGED pc
  /\ UNCHANGED skip

\* "errors" in data
ErrorsReturned ==
  /\ pc = "request"
  /\ response' = [kind |-> "errors", page |-> <<>>]
  /\ pc' = "returned"
  /\ sleep' = 0
  /\ UNCHANGED <<skip, attempt>>

\* a loop that only an empty page stops
PageReturnedUntilEmpty(page, delay) ==
  /\ pc = "request"
  /\ response' = [kind |-> "page", page |-> page]
  /\ IF page = <<>>
     THEN /\ pc' = "returned"
          /\ sleep' = 0
          /\ UNCHANGED <<skip, attempt>>
     ELSE /\ skip' = skip + BATCH_SIZE
          /\ sleep' = delay
          /\ attempt' = 1
          /\ UNCHANGED pc

\* a loop that stops after its first page
PageReturnedOnce(page, delay) ==
  /\ pc = "request"
  /\ response' = [kind |-> "page", page |-> page]
  /\ pc' = "returned"
  /\ sleep' = 0
  /\ UNCHANGED <<skip, attempt>>

\* the request succeeded with `page`: what becomes of skip, attempt and pc
PageReturned(page, delay) ==
  /\ pc = "request"
  /\ response' = [kind |-> "page", page |-> page]
  /\ IF page = <<>> \/ Len(page) < BATCH_SIZE
     THEN /\ pc' = "returned"
          /\ sleep' = 0
          /\ UNCHANGED <<skip, attempt>>
     ELSE /\ skip' = skip + BATCH_SIZE
          /\ sleep' = delay
          /\ attempt' = 1
          /\ UNCHANGED pc

\* ------------------------------------------------------------- update_data
\* update_data up to the first page request of fetch_all_liquidations
UpdateData ==
  /\ pc = "idle"
  /\ LET asset_key == asset
         ld == load_parquet(files, asset_key)
         config == get_asset_config(asset_key)
     IN  /\ files' = ld.files
         /\ existing' = ld.df
         /\ lastLoad' = [fn |-> "load_parquet", df |-> ld.df]
         /\ IF config = KeyError
            THEN \* fetch_all_liquidations, line 143
                 /\ pc' = "raised"
                 /\ UNCHANGED <<version, todo, skip, attempt, response>>
            ELSE /\ version' = Head(SubgraphsOf(config))
                 /\ todo' = Tail(SubgraphsOf(config))
                 /\ BeginLoop
  /\ job' = "update"
  /\ new_df' = EmptyFrame
  /\ all_raw' = <<>>
  /\ all_liquidations' = <<>>
  /\ sleep' = 0
  /\ UNCHANGED <<asset, behaviorVars, upstream>>
  /\ UNCHANGED <<analysisVars, second>>

\* _fetch_liquidations_from_endpoint: the attempt fails on transport
LiquidationsRequestFailed ==
  /\ job = "update"
  /\ RequestFailed(RATE_LIMIT_DELAY)
  /\ UNCHANGED <<files, job, asset, updateVars, version, behaviorVars,
                 upstream, lastLoad>>
  /\ UNCHANGED <<analysisVars, second>>

\* _fetch_liquidations_from_endpoint: the response carries "errors"
LiquidationsErrors ==
  /\ job = "update"
  /\ ErrorsReturned
  /\ UNCHANGED <<files, job, asset, updateVars, version, behaviorVars,
                 upstream, lastLoad>>
  /\ UNCHANGED <<analysisVars, second>>

\* _fetch_liquidations_from_endpoint: the response carries a page
LiquidationsPage ==
  /\ job = "update"
  /\ \E page \in PagesNow(upstream.liquidates, RawLiquidations,
                          MaxRaw - Len(all_raw) - Len(all_liquidations)) :
       /\ PageReturned(page, RATE_LIMIT_DELAY)
       /\ all_liquidations' = all_liquidations \o TagAll(page, version)
  /\ UNCHANGED <<files, job, asset, existing, new_df, all_raw, todo, version,
                 behaviorVars, upstream, lastLoad>>
  /\ UNCHANGED <<analysisVars, second>>

\* fetch_all_liquidations: the V2 fetch returned, the V3 fetch starts
FetchNextSubgraph ==
  /\ job = "update"
  /\ pc = "returned"
  /\ todo # <<>>
  /\ all_raw' = all_raw \o all_liquidations
  /\ version' = Head(todo)
  /\ todo' = Tail(todo)
  /\ all_liquidations' = <<>>
  /\ BeginLoop
  /\ sleep' = 0
  /\ UNCHANGED <<files, job, asset, existing, new_df, behaviorVars,
                 upstream, lastLoad>>
  /\ UNCHANGED <<analysisVars, second>>

\* fetch_all_liquidations returns: the last fetch returned, _raw_to_dataframe
FetchAllReturn ==
  /\ job = "update"
  /\ pc = "returned"
  /\ todo = <<>>
  /\ all_raw' = all_raw \o all_liquidations
  /\ new_df' \in _raw_to_dataframe(all_raw \o all_liquidations)
  /\ pc' = "fetched"
  /\ sleep' = 0
  /\ UNCHANGED <<files, job, asset, existing, todo, version, all_liquidations,
                 behaviorVars, skip, attempt, upstream, response, lastLoad>>
  /\ UNCHANGED <<analysisVars, second>>

\* update_data, lines 212-224: the merge and save_parquet
MergeAndSave ==
  /\ job = "update"
  /\ pc = "fetched"
  /\ \E combined \in Combined(existing, new_df) :
       files' = save_parquet(files, combined, asset)
  /\ pc' = "idle"
  /\ lastLoad' = NoLoad
  /\ UNCHANGED <<job, asset, updateVars, version, behaviorVars, skip, attempt,
                 upstream, response, sleep>>
  /\ UNCHANGED <<analysisVars, second>>

\* ---------------------------------------------- a second update_data
\* the tables fetch_all_liquidations may return from a volatile upstream
FetchAllOutcomes(config) ==
  LET v2_raws == Lists(RawLiquidations,
                       IF Serves(config, "V2") THEN MaxRaw ELSE 0)
      v3_raws(v2_raw) ==
        Lists(RawLiquidations,
              IF Serves(config, "V3") THEN MaxRaw - Len(v2_raw) ELSE 0)
  IN  UNION {UNION {_raw_to_dataframe(TagAll(v2_raw, "V2")
                                        \o TagAll(v3_raw, "V3")) :
                      v3_raw \in v3_raws(v2_raw)} :
               v2_raw \in v2_raws}

\* update_data, line 209, in an invocation that starts after the first one
\* has loaded
SecondLoad ==
  /\ job = "update"
  /\ second.pc = "idle"
  /\ LET ld == load_parquet(files, asset)
     IN  /\ files' = ld.files
         /\ second' = [pc |-> "loaded", existing |-> ld.df,
                       new_df |-> EmptyFrame, overlap |-> pc # "idle"]
  /\ UNCHANGED <<job, pc, asset, updateVars, version, behaviorVars, skip,
                 attempt, upstream, response, sleep, lastLoad, analysisVars>>

\* update_data, line 210, in the second invocation
SecondFetch ==
  /\ second.pc = "loaded"
  /\ \E df \in FetchAllOutcomes(get_asset_config(asset)) :
       second' = [second EXCEPT !.pc = "fetched", !.new_df = df]
  /\ UNCHANGED <<files, job, pc, asset, updateVars, version, behaviorVars,
                 skip, attempt, upstream, response, sleep, lastLoad,
                 analysisVars>>

\* update_data, lines 212-224, in the second invocation
SecondMergeAndSave ==
  /\ second.pc = "fetched"
  /\ \E combined \in Combined(second.existing, second.new_df) :
       files' = save_parquet(files, combined, asset)
  /\ second' = [second EXCEPT !.pc = "saved"]
  /\ UNCHANGED <<job, pc, asset, updateVars, version, behaviorVars, skip,
                 attempt, upstream, response, sleep, lastLoad, analysisVars>>

\* ------------------------------------------------- user_behavior_fetcher.py
\* a table of user actions
ActionFrame(rows) == [amount_col |-> "amount", rows |-> rows]

\* --min-wbtc and --window of scripts/fetch_user_behavior.py (the defaults)
min_wbtc == [num |-> 1, den |-> 1]

window_hours == 48

\* a >= b for decimals
AtLeast(a, b) == a.num * b.den >= b.num * a.den

\* liquidations_df[liquidations_df["collateral_amount_btc"] >= min_wbtc]
Big(rows) ==
  SelectRows(rows,
    {i \in DOMAIN rows : AtLeast(rows[i].collateral_amount_btc, min_wbtc)})

MinOf(S) == CHOOSE t \in S : \A u \in S : t <= u

MaxOf(S) == CHOOSE t \in S : \A u \in S : t >= u

\* the keys big.groupby(["liquidatee", "version"]) may meet, in sorted order
GroupKeys ==
  << <<"0xA", "V2">>, <<"0xA", "V3">>, <<"0xB", "V2">>, <<"0xB", "V3">> >>

\* groupby(...).agg(min_ts, max_ts).reset_index()
GroupsOf(big) ==
  LET of(key) == {i \in DOMAIN big :
                    big[i].liquidatee = key[1] /\ big[i].version = key[2]}
      met == SelectSeq(GroupKeys, LAMBDA key : of(key) # {})
  IN  [k \in DOMAIN met |->
         [liquidatee |-> met[k][1], version |-> met[k][2],
          min_ts |-> MinOf({big[i].timestamp : i \in of(met[k])}),
          max_ts |-> MaxOf({big[i].timestamp : i \in of(met[k])})]]

\* the groups the loop of fetch_user_actions does not `continue` over
ServedGroups(gs, config) == SelectSeq(gs, LAMBDA g : Serves(config, g.version))

\* a range that runs from the window of the latest liquidation of the group
\* to its earliest liquidation
QueryOfSwapped(g) ==
  [account |-> g.liquidatee,
   ts_from |-> g.max_ts - window_hours * 3600,
   ts_to |-> g.min_ts]

\* the variables of the two queries of a group
QueryOf(g) ==
  [account |-> g.liquidatee,
   ts_from |-> g.min_ts - window_hours * 3600,
   ts_to |-> g.max_ts]

\* _parse_events
_parse_events(raw_events, action_type, v) ==
  [i \in DOMAIN raw_events |->
     [id |-> raw_events[i].id, action_type |-> action_type, version |-> v,
      timestamp |-> raw_events[i].timestamp,
      account |-> raw_events[i].account,
      asset_address |-> raw_events[i].asset_address,
      amount |-> Scale(raw_events[i].amount, raw_events[i].decimals)]]

\* fetch_user_actions, lines 199-203: the tables it may return
UserActionsFrame(rows) ==
  IF rows = <<>> THEN {EmptyFrame}
  ELSE {ActionFrame(s) : s \in SortValuesDesc(DropDuplicatesKeepLast(rows))}

\* save_user_actions
save_user_actions(fs, df, asset_key) ==
  [fs EXCEPT ![_actions_parquet_path(asset_key)] = df]

\* load_user_actions
load_user_actions(fs, asset_key) ==
  LET path == _actions_parquet_path(asset_key)
      used == IF ~Exists(fs, path) /\ asset_key = "wbtc"
                 /\ Exists(fs, OldActionsPath)
              THEN OldActionsPath ELSE path
  IN  IF ~Exists(fs, used) THEN EmptyFrame ELSE fs[used]

\* scripts/fetch_user_behavior.py, one asset of main: load_parquet and
\* fetch_user_actions up to the first page request
FetchUserBehavior ==
  /\ pc = "idle"
  /\ LET asset_key == asset
         config == get_asset_config(asset_key)
         ld == load_parquet(files, asset_key)
         gs == ServedGroups(GroupsOf(Big(ld.df.rows)), config)
     IN  IF config = KeyError
         THEN \* line 58 of the script; line 138 for a caller that hands the
              \* key to fetch_user_actions itself
              /\ pc' = "raised"
              /\ UNCHANGED <<files, lastLoad, groups, version, skip, attempt,
                             response>>
         ELSE /\ files' = ld.files
              /\ lastLoad' = [fn |-> "load_parquet", df |-> ld.df]
              /\ groups' = gs
              /\ IF gs = <<>>
                 THEN \* no liquidation data, or nothing to query: nothing is
                      \* saved
                      /\ pc' = "idle"
                      /\ UNCHANGED <<version, skip, attempt, response>>
                 ELSE /\ version' = gs[1].version
                      /\ BeginLoop
  /\ job' = "behavior"
  /\ kind' = "deposit"
  /\ all_rows' = <<>>
  /\ all_events' = <<>>
  /\ sleep' = 0
  /\ UNCHANGED <<asset, updateVars, upstream>>
  /\ UNCHANGED <<analysisVars, second>>

\* _fetch_user_events: the attempt fails on transport
UserEventsRequestFailed ==
  /\ job = "behavior"
  /\ RequestFailed(UA_RATE_LIMIT_DELAY)
  /\ UNCHANGED <<files, job, asset, updateVars, version, behaviorVars,
                 upstream, lastLoad>>
  /\ UNCHANGED <<analysisVars, second>>

\* _fetch_user_events: the response carries "errors"
UserEventsErrors ==
  /\ job = "behavior"
  /\ ErrorsReturned
  /\ UNCHANGED <<files, job, asset, updateVars, version, behaviorVars,
                 upstream, lastLoad>>
  /\ UNCHANGED <<analysisVars, second>>

\* _fetch_user_events: the response carries a page
UserEventsPage ==
  /\ job = "behavior"
  /\ pc = "request"
  /\ \E page \in PagesNow(UserEventsOf(QueryOf(groups[1])),
                          Matching(QueryOf(groups[1])),
                          MaxRaw - Len(all_rows) - Len(all_events)) :
       /\ PageReturned(page, UA_RATE_LIMIT_DELAY)
       /\ all_events' = all_events \o page
  /\ UNCHANGED <<files, job, asset, updateVars, version, groups, kind,
                 all_rows, upstream, lastLoad>>
  /\ UNCHANGED <<analysisVars, second>>

\* fetch_user_actions, lines 180-188: the deposits are in, fetch the repays
DepositsReturned ==
  /\ job = "behavior"
  /\ pc = "returned"
  /\ kind = "deposit"
  /\ all_rows' = all_rows \o _parse_events(all_events, "deposit", version)
  /\ kind' = "repay"
  /\ all_events' = <<>>
  /\ BeginLoop
  /\ sleep' = UA_RATE_LIMIT_DELAY
  /\ UNCHANGED <<files, job, asset, updateVars, version, groups, upstream,
                 lastLoad>>
  /\ UNCHANGED <<analysisVars, second>>

\* fetch_user_actions, lines 188-197 and 165-181: the repays are in, the
\* next group starts
RepaysReturned ==
  /\ job = "behavior"
  /\ pc = "returned"
  /\ kind = "repay"
  /\ Len(groups) > 1
  /\ all_rows' = all_rows \o _parse_events(all_events, "repay", version)
  /\ groups' = Tail(groups)
  /\ version' = groups[2].version
  /\ kind' = "deposit"
  /\ all_events' = <<>>
  /\ BeginLoop
  /\ sleep' = UA_RATE_LIMIT_DELAY
  /\ UNCHANGED <<files, job, asset, updateVars, upstream, lastLoad>>
  /\ UNCHANGED <<analysisVars, second>>

\* fetch_user_actions returns after the last group (lines 188-206) and main
\* saves a table that is not empty (fetch_user_behavior.py, lines 78-81)
UserActionsFetched ==
  /\ job = "behavior"
  /\ pc = "returned"
  /\ kind = "repay"
  /\ Len(groups) = 1
  /\ \E df \in UserActionsFrame(
                 all_rows \o _parse_events(all_events, "repay", version)) :
       files' = IF IsEmpty(df) THEN files
                ELSE save_user_actions(files, df, asset)
  /\ pc' = "idle"
  /\ groups' = <<>>
  /\ kind' = "deposit"
  /\ all_rows' = <<>>
  /\ all_events' = <<>>
  /\ skip' = 0
  /\ attempt' = 1
  /\ response' = NoResponse
  /\ sleep' = UA_RATE_LIMIT_DELAY
  /\ lastLoad' = NoLoad
  /\ UNCHANGED <<job, asset, updateVars, version, upstream>>
  /\ UNCHANGED <<analysisVars, second>>

\* a caller of load_user_actions
LoadUserActions ==
  /\ pc = "idle"
  /\ lastLoad' = [fn |-> "load_user_actions",
                  df |-> load_user_actions(files, asset)]
  /\ UNCHANGED <<files, job, pc, asset, updateVars, version, behaviorVars,
                 skip, attempt, upstream, response, sleep>>
  /\ UNCHANGED <<analysisVars, second>>

\* ---------------------------------------------------------- the dashboard
\* a file whose write has begun and has not ended
PartialFile == [amount_col |-> "partially written", rows |-> <<>>]

\* pd.read_parquet raised
Raised == [amount_col |-> "raised", rows |-> <<>>]

\* pd.read_parquet(path, engine="pyarrow")
read_parquet(file) == IF file = PartialFile THEN Raised ELSE file

\* a load that reads the legacy file of wbtc whenever there is one
load_data_legacy_first(fs, asset_key) ==
  LET path == _parquet_path(asset_key)
      used == IF asset_key = "wbtc" /\ Exists(fs, OldLiquidationsPath)
              THEN OldLiquidationsPath ELSE path
  IN  IF ~Exists(fs, used) THEN EmptyFrame
      ELSE RenameLegacyColumn(read_parquet(fs[used]))

\* data_processor.load_data: the table the dashboard reads
load_data(fs, asset_key) ==
  LET path == _parquet_path(asset_key)
      used == IF /\ ~Exists(fs, path)
                 /\ asset_key = "wbtc"
                 /\ Exists(fs, OldLiquidationsPath)
              THEN OldLiquidationsPath ELSE path
  IN  IF ~Exists(fs, used) THEN EmptyFrame
      ELSE RenameLegacyColumn(read_parquet(fs[used]))

\* save_parquet, line 172: df.to_parquet opens the file of the asset for
\* writing, in place
SaveParquetOpen ==
  /\ job = "update"
  /\ pc = "fetched"
  /\ files' = [files EXCEPT ![_parquet_path(asset)] = PartialFile]
  /\ pc' = "saving"
  /\ UNCHANGED <<job, asset, updateVars, version, behaviorVars, skip, attempt,
                 upstream, response, sleep, lastLoad, analysisVars, second>>

\* save_parquet, line 172: df.to_parquet has written the table and returns
SaveParquetClose ==
  /\ job = "update"
  /\ pc = "saving"
  /\ \E combined \in Combined(existing, new_df) :
       files' = save_parquet(files, combined, asset)
  /\ pc' = "idle"
  /\ UNCHANGED <<job, asset, updateVars, version, behaviorVars, skip, attempt,
                 upstream, response, sleep, lastLoad, analysisVars, second>>

\* a dashboard session calls load_data while update_data may be running
LoadDataDuringJob ==
  /\ lastLoad' = [fn |-> "load_data", df |-> load_data(files, asset)]
  /\ UNCHANGED <<files, job, pc, asset, updateVars, version, behaviorVars,
                 skip, attempt, upstream, response, sleep, analysisVars, second>>

\* a dashboard session calls load_data while no job runs
LoadData ==
  /\ pc = "idle"
  /\ LoadDataDuringJob

\* ------------------------------------------------------ analysis: inputs
\* the instant of the liquidation the window cases are built around
EventTime == 200000

\* an address that is neither asset's (the collateral of the end-to-end
\* scenario) and the address of another reserve
OtherCollateral == "0xBTC"
UsdcAddress == "0xusdc"

\* collateral addresses a liquidation table may carry
CollateralAddresses == {WBTC_ADDRESS, CBBTC_ADDRESS, OtherCollateral}

\* a row of a persisted liquidation table, with the columns the analysis
\* reads; its amount is given in hundredths of a BTC
AnalysisRow(id, ts, liquidator, liquidatee, hundredths, usd, c) ==
  [id |-> id, version |-> "V3", timestamp |-> ts, tx_hash |-> id,
   liquidator |-> liquidator, liquidatee |-> liquidatee,
   collateral_asset_address |-> c,
   collateral_amount_btc |-> Scale(hundredths, 2),
   collateral_amount_usd |-> usd]

\* liquidations of collateral c: three by liquidator 0xA of 100 USD each, two
\* by 0xB of 250 USD each; amounts of 2, 0.1, 50, 1 and 0.05 BTC
AnalysisLiquidations(c) ==
  { AnalysisRow("L1", EventTime, "0xA", "0xAA", 200, 100, c),
    AnalysisRow("L2", EventTime - 10, "0xA", "0xBB", 10, 100, c),
    AnalysisRow("L3", EventTime - 20, "0xB", "0xAA", 5000, 250, c),
    AnalysisRow("L4", EventTime - 30, "0xB", "0xBB", 100, 250, c),
    AnalysisRow("L5", EventTime - 40, "0xA", "0xCC", 5, 100, c) }

\* a row of a persisted action table
ActionRow(id, action_type, ts, account, address, usd) ==
  [id |-> id, action_type |-> action_type, version |-> "V3",
   timestamp |-> ts, account |-> account, asset_address |-> address,
   asset_symbol |-> address, amount |-> Scale(100000000, 8),
   amount_usd |-> usd]

\* actions around the 48 hours before EventTime: on the edges of the window,
\* one second outside them, of another account, of another reserve
AnalysisActions(c) ==
  { ActionRow("A1", "deposit", EventTime - 48 * 3600, "0xAA", c, 5000),
    ActionRow("A2", "deposit", EventTime - 48 * 3600 - 1, "0xAA", c, 700),
    ActionRow("A3", "repay", EventTime, "0xAA", c, 1000),
    ActionRow("A4", "repay", EventTime + 1, "0xAA", c, 300),
    ActionRow("A5", "deposit", EventTime - 100, "0xBB", c, 40),
    ActionRow("A6", "deposit", EventTime - 200, "0xAA", UsdcAddress, 60) }

\* the tables a sorted store may hold of the rows of S, n rows at most
SortedTables(S, n) == {s \in Lists(S, n) : IsSortedDesc(s)}

\* the choices of the page: "Min liquidation size" and the window slider
MinSizes == {[num |-> 1, den |-> 1], [num |-> 50, den |-> 1]}
WindowHours == {6, 48}

\* ------------------------------------------------- behavior_analyzer.py
RECURSIVE SumUsd(_, _)
\* df[column].sum()
SumUsd(rows, column) ==
  IF rows = <<>> THEN 0
  ELSE rows[1][column] + SumUsd(Tail(rows), column)

\* None
Absent == [present |-> FALSE, num |-> 0, den |-> 3600]

\* a window that is open at its early end
UserActionsOpenWindow(actions, account, ts_from, liq_ts) ==
  SelectRows(actions,
    {j \in DOMAIN actions : /\ actions[j].account = account
                            /\ actions[j].timestamp > ts_from
                            /\ actions[j].timestamp <= liq_ts})

\* a window without an early end: every action up to the liquidation
UserActionsUpToLiquidation(actions, account, ts_from, liq_ts) ==
  SelectRows(actions,
    {j \in DOMAIN actions : /\ actions[j].account = account
                            /\ actions[j].timestamp <= liq_ts})

\* the timestamp of the first action instead of the last
FirstActionTs(user_actions) ==
  MinOf({user_actions[j].timestamp : j \in DOMAIN user_actions})

\* user_actions["timestamp"].max()
LastActionTs(user_actions) ==
  MaxOf({user_actions[j].timestamp : j \in DOMAIN user_actions})

\* classify_users, lines 80-84: the actions of the account in the window
UserActions(actions, account, ts_from, liq_ts) ==
  SelectRows(actions,
    {j \in DOMAIN actions : /\ actions[j].account = account
                            /\ actions[j].timestamp >= ts_from
                            /\ actions[j].timestamp <= liq_ts})

\* no partition: every row counts as one of the type
OfAnyType(rows, action_type) == rows

\* rows of one action_type
OfType(rows, action_type) ==
  SelectRows(rows, {j \in DOMAIN rows : rows[j].action_type = action_type})

\* classify_users, lines 74-123: the row of one liquidation
ClassifiedRow(liq, actions, target_address, window_seconds) ==
  LET liq_ts == liq.timestamp
      user_actions == UserActions(actions, liq.liquidatee,
                                  liq_ts - window_seconds, liq_ts)
      deposits == OfType(user_actions, "deposit")
      repays == OfType(user_actions, "repay")
      has_deposit == Len(deposits) > 0
      has_repay == Len(repays) > 0
  IN  [behavior |-> IF has_deposit /\ has_repay THEN "Deposit + Repay"
                    ELSE IF has_deposit THEN "Deposit Only"
                    ELSE IF has_repay THEN "Repay Only"
                    ELSE "Passive",
       deposit_count |-> Len(deposits),
       repay_count |-> Len(repays),
       deposit_usd |-> IF has_deposit THEN SumUsd(deposits, "amount_usd")
                       ELSE 0,
       repay_usd |-> IF has_repay THEN SumUsd(repays, "amount_usd") ELSE 0,
       deposit_assets |-> {deposits[j].asset_symbol : j \in DOMAIN deposits},
       deposited_collateral |->
         has_deposit /\ \E j \in DOMAIN deposits :
                          deposits[j].asset_address = target_address,
       hours_before_last_action |->
         IF Len(user_actions) > 0
         THEN [present |-> TRUE,
               num |-> liq_ts - LastActionTs(user_actions),
               den |-> 3600]
         ELSE Absent] @@ liq

\* classify_users, lines 60-69: the row of one liquidation when the action
\* table is empty
PassiveRow(liq) ==
  [behavior |-> "Passive", deposit_count |-> 0, repay_count |-> 0,
   deposit_usd |-> 0, repay_usd |-> 0, deposit_assets |-> {},
   deposited_collateral |-> FALSE, hours_before_last_action |-> Absent] @@ liq

\* a classification that returns nothing when the action table is empty
classify_users_skips_empty(liq, actions, asset_key, min_size, hours) ==
  LET config == get_asset_config(asset_key)
      target_address == config.address
      big == SelectRows(liq.rows,
               {i \in DOMAIN liq.rows :
                  AtLeast(liq.rows[i].collateral_amount_btc, min_size)})
      window_seconds == hours * 3600
  IN  IF IsEmpty(actions)
      THEN <<>>
      ELSE [i \in DOMAIN big |->
              ClassifiedRow(big[i], actions.rows, target_address,
                            window_seconds)]

\* a classification whose window starts with the earliest liquidation of the
\* account, as the range the fetcher queries does
classify_users_shared_window(liq, actions, asset_key, min_size, hours) ==
  LET config == get_asset_config(asset_key)
      target_address == config.address
      big == SelectRows(liq.rows,
               {i \in DOMAIN liq.rows :
                  AtLeast(liq.rows[i].collateral_amount_btc, min_size)})
      min_ts(account) ==
        MinOf({big[j].timestamp :
                 j \in {k \in DOMAIN big : big[k].liquidatee = account}})
  IN  IF config = KeyError THEN KeyError
      ELSE IF IsEmpty(actions)
      THEN [i \in DOMAIN big |-> PassiveRow(big[i])]
      ELSE [i \in DOMAIN big |->
              ClassifiedRow(big[i], actions.rows, target_address,
                            hours * 3600 + big[i].timestamp
                              - min_ts(big[i].liquidatee))]

\* classify_users: the rows of the table it returns
classify_users(liq, actions, asset_key, min_size, hours) ==
  LET config == get_asset_config(asset_key)
      target_address == config.address
      big == SelectRows(liq.rows,
               {i \in DOMAIN liq.rows :
                  AtLeast(liq.rows[i].collateral_amount_btc, min_size)})
      window_seconds == hours * 3600
  IN  IF config = KeyError THEN KeyError
      ELSE IF IsEmpty(actions)
      THEN [i \in DOMAIN big |-> PassiveRow(big[i])]
      ELSE [i \in DOMAIN big |->
              ClassifiedRow(big[i], actions.rows, target_address,
                            window_seconds)]

\* a call of classify_users on the tables of the behaviour
ClassifyUsers ==
  /\ \E min_size \in MinSizes, hours \in WindowHours :
       view' = [fn |-> "classify_users",
                args |-> [min_wbtc |-> min_size, window_hours |-> hours],
                out |-> classify_users(liq_df, actions_df, asset, min_size,
                                       hours)]
  /\ UNCHANGED <<files, job, pc, asset, updateVars, version, behaviorVars,
                 skip, attempt, upstream, response, sleep, lastLoad, liq_df,
                 actions_df, second>>

\* ---------------------------------------------------- data_processor.py
\* bins = [0, 0.1, 0.5, 1, 5, 10, 50, float("inf")]: the finite edges
Bins ==
  << [num |-> 0, den |-> 1], [num |-> 1, den |-> 10], [num |-> 1, den |-> 2],
     [num |-> 1, den |-> 1], [num |-> 5, den |-> 1], [num |-> 10, den |-> 1],
     [num |-> 50, den |-> 1] >>

\* labels of get_size_distribution and of get_monthly_by_size_bracket
SizeLabels == <<"<0.1", "0.1-0.5", "0.5-1", "1-5", "5-10", "10-50", ">50">>
MonthlySizeLabels ==
  <<"<0.1 BTC", "0.1-0.5 BTC", "0.5-1 BTC", "1-5 BTC", "5-10 BTC",
    "10-50 BTC", ">50 BTC">>

\* a > b for decimals
Greater(a, b) == a.num * b.den > b.num * a.den

\* pd.cut(values, bins=bins, labels=labels), right=True by default: the
\* number of the interval (bins[b], bins[b+1]] that holds v, 0 (NaN) if none
Cut(v) ==
  IF ~Greater(v, Bins[1]) THEN 0
  ELSE CHOOSE b \in 1..Len(Bins) :
         /\ Greater(v, Bins[b])
         /\ b < Len(Bins) => ~Greater(v, Bins[b + 1])

\* days of 1970 before each month
DaysBefore == <<0, 31, 59, 90, 120, 151, 181, 212, 243, 273, 304, 334>>

\* datetime.dt.to_period("M") of a timestamp of 1970: the number of its month
MonthOf(ts) ==
  MaxOf({m \in DOMAIN DaysBefore : DaysBefore[m] * 86400 <= ts})

\* the rows of df in bracket b (and in month m, unless m is 0)
InBracket(df, m, b) ==
  SelectRows(df.rows,
    {i \in DOMAIN df.rows :
       /\ Cut(df.rows[i].collateral_amount_btc) = b
       /\ m # 0 => MonthOf(df.rows[i].timestamp) = m})

\* groupby(..., observed=True).agg(count, total_btc, total_usd): the row of
\* one group
BracketRow(df, m, b, labels) ==
  LET rows == InBracket(df, m, b)
  IN  [size_bracket |-> labels[b], count |-> Len(rows),
       total_btc |-> [num |-> SumUsd([i \in DOMAIN rows |->
                                       rows[i].collateral_amount_btc], "num"),
                      den |-> 100],
       total_usd |-> SumUsd(rows, "collateral_amount_usd")]

\* get_size_distribution
get_size_distribution(df) ==
  IF IsEmpty(df) THEN <<>>
  ELSE LET observed == SelectSeq([b \in DOMAIN Bins |-> b],
                         LAMBDA b : InBracket(df, 0, b) # <<>>)
       IN  [k \in DOMAIN observed |->
              BracketRow(df, 0, observed[k], SizeLabels)]

\* get_monthly_by_size_bracket
get_monthly_by_size_bracket(df) ==
  IF IsEmpty(df) THEN <<>>
  ELSE LET groups_ == [k \in 1..(12 * Len(Bins)) |->
                        [m |-> ((k - 1) \div Len(Bins)) + 1,
                         b |-> ((k - 1) % Len(Bins)) + 1]]
           observed == SelectSeq(groups_,
                         LAMBDA g : InBracket(df, g.m, g.b) # <<>>)
       IN  [k \in DOMAIN observed |->
              [month |-> observed[k].m] @@
              BracketRow(df, observed[k].m, observed[k].b, MonthlySizeLabels)]

\* a call of get_size_distribution on the liquidation table
GetSizeDistribution ==
  /\ view' = [fn |-> "get_size_distribution", args |-> [labels |-> SizeLabels],
              out |-> get_size_distribution(liq_df)]
  /\ UNCHANGED <<files, job, pc, asset, updateVars, version, behaviorVars,
                 skip, attempt, upstream, response, sleep, lastLoad, liq_df,
                 actions_df, second>>

\* a call of get_monthly_by_size_bracket on the liquidation table
GetMonthlyBySizeBracket ==
  /\ view' = [fn |-> "get_monthly_by_size_bracket",
              args |-> [labels |-> MonthlySizeLabels],
              out |-> get_monthly_by_size_bracket(liq_df)]
  /\ UNCHANGED <<files, job, pc, asset, updateVars, version, behaviorVars,
                 skip, attempt, upstream, response, sleep, lastLoad, liq_df,
                 actions_df, second>>

\* the values of top_n the rankings are asked for (20 is the default)
TopNs == {1, 2, 20}

\* df.groupby(key).agg(count, total_btc, total_usd): one row per address
GroupByAddress(df, key) ==
  {LET rows == SelectRows(df.rows,
                 {i \in DOMAIN df.rows : df.rows[i][key] = a})
   IN  (key :> a) @@
       [count |-> Len(rows),
        total_btc |-> [num |-> SumUsd([i \in DOMAIN rows |->
                                        rows[i].collateral_amount_btc], "num"),
                       den |-> 100],
        total_usd |-> SumUsd(rows, "collateral_amount_usd")]
   : a \in {df.rows[i][key] : i \in DOMAIN df.rows}}

\* the arrangements of the rows S in one sequence
Arrangements(S) ==
  {s \in [1..Cardinality(S) -> S] :
     \A i, j \in DOMAIN s : i # j => s[i] # s[j]}

\* sort_values("total_usd"): the ascending order
SortByTotalUsdAscending(S) ==
  {s \in Arrangements(S) :
     \A i, j \in DOMAIN s : i < j => s[i].total_usd <= s[j].total_usd}

\* sort_values("total_usd", ascending=False): the sort is unstable, so every
\* arrangement that is ordered by total_usd descending is a possible result
SortByTotalUsd(S) ==
  {s \in Arrangements(S) :
     \A i, j \in DOMAIN s : i < j => s[i].total_usd >= s[j].total_usd}

\* .head(top_n)
HeadRows(s, top_n) == SubSeq(s, 1, IF Len(s) < top_n THEN Len(s) ELSE top_n)

\* the results get_top_liquidators / get_top_liquidatees can return
TopBy(df, key, top_n) ==
  IF IsEmpty(df) THEN {<<>>}
  ELSE {HeadRows(s, top_n) : s \in SortByTotalUsd(GroupByAddress(df, key))}

get_top_liquidators(df, top_n) == TopBy(df, "liquidator", top_n)

get_top_liquidatees(df, top_n) == TopBy(df, "liquidatee", top_n)

\* a call of get_top_liquidators on the liquidation table
GetTopLiquidators ==
  /\ \E top_n \in TopNs : \E out \in get_top_liquidators(liq_df, top_n) :
       view' = [fn |-> "get_top_liquidators",
                args |-> [key |-> "liquidator", top_n |-> top_n], out |-> out]
  /\ UNCHANGED <<files, job, pc, asset, updateVars, version, behaviorVars,
                 skip, attempt, upstream, response, sleep, lastLoad, liq_df,
                 actions_df, second>>

\* a call of get_top_liquidatees on the liquidation table
GetTopLiquidatees ==
  /\ \E top_n \in TopNs : \E out \in get_top_liquidatees(liq_df, top_n) :
       view' = [fn |-> "get_top_liquidatees",
                args |-> [key |-> "liquidatee", top_n |-> top_n], out |-> out]
  /\ UNCHANGED <<files, job, pc, asset, updateVars, version, behaviorVars,
                 skip, attempt, upstream, response, sleep, lastLoad, liq_df,
                 actions_df, second>>

\* 0.0
Zero == [num |-> 0, den |-> 1]

\* get_kpi_metrics
get_kpi_metrics(df) ==
  IF IsEmpty(df)
  THEN [total_liquidations |-> 0, total_btc |-> Zero, total_usd |-> Zero,
        unique_liquidators |-> 0, unique_liquidatees |-> 0,
        avg_liquidation_usd |-> Zero, max_liquidation_usd |-> Zero,
        v2_count |-> 0, v3_count |-> 0]
  ELSE LET rows == df.rows
           usd == SumUsd(rows, "collateral_amount_usd")
       IN  [total_liquidations |-> Len(rows),
            total_btc |-> [num |-> SumUsd([i \in DOMAIN rows |->
                                     rows[i].collateral_amount_btc], "num"),
                           den |-> 100],
            total_usd |-> [num |-> usd, den |-> 1],
            unique_liquidators |->
              Cardinality({rows[i].liquidator : i \in DOMAIN rows}),
            unique_liquidatees |->
              Cardinality({rows[i].liquidatee : i \in DOMAIN rows}),
            avg_liquidation_usd |-> [num |-> usd, den |-> Len(rows)],
            max_liquidation_usd |->
              [num |-> MaxOf({rows[i].collateral_amount_usd :
                               i \in DOMAIN rows}),
               den |-> 1],
            v2_count |-> Len(SelectSeq(rows, LAMBDA r : r.version = "V2")),
            v3_count |-> Len(SelectSeq(rows, LAMBDA r : r.version = "V3"))]

\* Series.mean() of the positive values of a column: NaN if there are none
MeanOfPositive(rows, column) ==
  LET positive == SelectSeq(rows, LAMBDA r : r[column] > 0)
  IN  IF positive = <<>> THEN [present |-> FALSE, num |-> 0, den |-> 1]
      ELSE [present |-> TRUE, num |-> SumUsd(positive, column),
            den |-> Len(positive)]

\* get_behavior_summary: {} for an empty classified table
get_behavior_summary(classified_df) ==
  IF classified_df = <<>> THEN <<>>
  ELSE LET total == Len(classified_df)
           With(behavior) ==
             Len(SelectSeq(classified_df, LAMBDA r : r.behavior = behavior))
       IN  [total |-> total,
            passive |-> With("Passive"),
            deposit_only |-> With("Deposit Only"),
            repay_only |-> With("Repay Only"),
            both |-> With("Deposit + Repay"),
            pct_tried_save |->
              [num |-> (total - With("Passive")) * 100, den |-> total],
            deposited_collateral_count |->
              Len(SelectSeq(classified_df,
                            LAMBDA r : r.deposited_collateral)),
            avg_deposit_usd |-> MeanOfPositive(classified_df, "deposit_usd"),
            avg_repay_usd |-> MeanOfPositive(classified_df, "repay_usd")]

\* get_behavior_by_size: bins = [1, 5, 10, 50, float("inf")], the finite edges
BehaviorBins ==
  << [num |-> 1, den |-> 1], [num |-> 5, den |-> 1], [num |-> 10, den |-> 1],
     [num |-> 50, den |-> 1] >>

\* labels of get_behavior_by_size
BehaviorSizeLabels == <<"1-5 BTC", "5-10 BTC", "10-50 BTC", ">50 BTC">>

\* the behaviours, in the order groupby sorts them
Behaviors == <<"Deposit + Repay", "Deposit Only", "Passive", "Repay Only">>

\* pd.cut(df["collateral_amount_btc"], bins=bins, labels=labels), right=True
\* by default: the number of the interval (bins[b], bins[b+1]] that holds v,
\* 0 (NaN) if none
CutBehaviorSize(v) ==
  IF ~Greater(v, BehaviorBins[1]) THEN 0
  ELSE CHOOSE b \in 1..Len(BehaviorBins) :
         /\ Greater(v, BehaviorBins[b])
         /\ b < Len(BehaviorBins) => ~Greater(v, BehaviorBins[b + 1])

\* get_behavior_by_size: groupby(["size_bracket", "behavior"],
\* observed=True).size(), an empty table for an empty classified table
get_behavior_by_size(classified_df) ==
  IF classified_df = <<>> THEN <<>>
  ELSE LET size(b, k) ==
             Len(SelectSeq(classified_df,
                   LAMBDA r : /\ CutBehaviorSize(r.collateral_amount_btc) = b
                              /\ r.behavior = Behaviors[k]))
           all == [n \in 1..(Len(BehaviorBins) * Len(Behaviors)) |->
                     LET b == ((n - 1) \div Len(Behaviors)) + 1
                         k == ((n - 1) % Len(Behaviors)) + 1
                     IN  [size_bracket |-> BehaviorSizeLabels[b],
                          behavior |-> Behaviors[k],
                          count |-> size(b, k)]]
       IN  SelectSeq(all, LAMBDA g : g.count > 0)

\* a call of get_kpi_metrics on the liquidation table
GetKpiMetrics ==
  /\ view' = [fn |-> "get_kpi_metrics", args |-> <<>>,
              out |-> get_kpi_metrics(liq_df)]
  /\ UNCHANGED <<files, job, pc, asset, updateVars, version, behaviorVars,
                 skip, attempt, upstream, response, sleep, lastLoad, liq_df,
                 actions_df, second>>

\* a call of get_behavior_summary on the table classify_users returned
GetBehaviorSummary ==
  /\ view.fn = "classify_users"
  /\ view' = [fn |-> "get_behavior_summary",
              args |-> [classified_df |-> view.out],
              out |-> get_behavior_summary(view.out)]
  /\ UNCHANGED <<files, job, pc, asset, updateVars, version, behaviorVars,
                 skip, attempt, upstream, response, sleep, lastLoad, liq_df,
                 actions_df, second>>

\* a call of get_behavior_by_size on the table classify_users returned for
\* the selections of the page
GetBehaviorBySize ==
  /\ view.fn = "classify_users"
  /\ view' = [fn |-> "get_behavior_by_size",
              args |-> [classified_df |-> view.out],
              selected |-> view.args,
              out |-> get_behavior_by_size(view.out)]
  /\ UNCHANGED <<files, job, pc, asset, updateVars, version, behaviorVars,
                 skip, attempt, upstream, response, sleep, lastLoad, liq_df,
                 actions_df, second>>

\* ------------------------------------------------------------ specifications
\* a liquidations.parquet left by the version that named the column
\* collateral_amount_wbtc
LegacyLiquidations ==
  [amount_col |-> "collateral_amount_wbtc",
   rows |-> <<LiquidationRow(Tag(RawLiq("L1", 2000, 100000000, "0xA"), "V2"))>>]

\* a user_actions.parquet left by the version that knew one asset
LegacyActions ==
  ActionFrame(_parse_events(<<RawAct("A1", 1500, "0xA")>>, "deposit", "V2"))

\* tables an earlier update_data of the asset may have saved
StoredLiquidations(asset_key) ==
  LET vs == SubgraphsOf(get_asset_config(asset_key))
      l1 == LiquidationRow(Tag(RawLiq("L1", 2000, 100000000, "0xA"), vs[1]))
      l3 == LiquidationRow(Tag(RawLiq("L3", 1000, 500000000, "0xB"),
                               vs[Len(vs)]))
  IN  {Frame(<<l1>>), Frame(<<l1, l3>>)}

\* the locals of the jobs before any job has run
InitJob ==
  /\ job = "none"
  /\ pc = "idle"
  /\ existing = EmptyFrame
  /\ new_df = EmptyFrame
  /\ all_raw = <<>>
  /\ todo = <<>>
  /\ version = "V2"
  /\ all_liquidations = <<>>
  /\ groups = <<>>
  /\ kind = "deposit"
  /\ all_rows = <<>>
  /\ all_events = <<>>
  /\ skip = 0
  /\ attempt = 1
  /\ response = NoResponse
  /\ sleep = 0
  /\ lastLoad = NoLoad
  /\ second = NotStarted

\* no analysis function has been called
InitNoAnalysis ==
  /\ liq_df = EmptyFrame
  /\ actions_df = EmptyFrame
  /\ view = NoView

\* an empty store and an upstream that may answer anything
Init ==
  /\ asset \in AssetKeys
  /\ files = [p \in Paths |-> NoFile]
  /\ upstream = Volatile
  /\ InitJob
  /\ InitNoAnalysis

\* a store that holds liquidations of the asset
InitStored ==
  /\ asset \in AssetKeys
  /\ \E t \in StoredLiquidations(asset) :
       files = [p \in Paths |-> IF p = _parquet_path(asset) THEN t ELSE NoFile]
  /\ upstream = Volatile
  /\ InitJob
  /\ InitNoAnalysis

\* any store of the asset, legacy files or none, and any upstream
InitAny ==
  /\ asset \in AssetKeys
  /\ \E oldL \in {NoFile, LegacyLiquidations},
        oldA \in {NoFile, LegacyActions},
        t \in {NoFile} \cup StoredLiquidations(asset) :
       files = [p \in Paths |->
                  IF p = _parquet_path(asset) THEN t
                  ELSE IF p = OldLiquidationsPath THEN oldL
                  ELSE IF p = OldActionsPath THEN oldA
                  ELSE NoFile]
  /\ upstream \in Upstreams
  /\ InitJob
  /\ InitNoAnalysis

NextUpdate ==
  \/ UpdateData
  \/ LiquidationsRequestFailed
  \/ LiquidationsErrors
  \/ LiquidationsPage
  \/ FetchNextSubgraph
  \/ FetchAllReturn
  \/ MergeAndSave

NextBehavior ==
  \/ FetchUserBehavior
  \/ UserEventsRequestFailed
  \/ UserEventsErrors
  \/ UserEventsPage
  \/ DepositsReturned
  \/ RepaysReturned
  \/ UserActionsFetched
  \/ LoadUserActions

\* the first job of a behaviour, and nothing but loads after it
NextOneJob ==
  \/ job = "none" /\ UpdateData
  \/ job = "none" /\ FetchUserBehavior
  \/ LiquidationsRequestFailed
  \/ LiquidationsErrors
  \/ LiquidationsPage
  \/ FetchNextSubgraph
  \/ FetchAllReturn
  \/ MergeAndSave
  \/ UserEventsRequestFailed
  \/ UserEventsErrors
  \/ UserEventsPage
  \/ DepositsReturned
  \/ RepaysReturned
  \/ UserActionsFetched
  \/ LoadUserActions
  \/ LoadData

\* tables of one collateral handed to the analysis functions
InitAnalysis ==
  /\ asset \in AssetKeys
  /\ files = [p \in Paths |-> NoFile]
  /\ upstream = Volatile
  /\ InitJob
  /\ \E c \in CollateralAddresses :
       /\ liq_df \in {EmptyFrame} \cup
                      {Frame(s) : s \in SortedTables(AnalysisLiquidations(c),
                                                    MaxLiquidations) \ {<<>>}}
       /\ actions_df \in {EmptyFrame} \cup
                          {ActionFrame(s) :
                             s \in SortedTables(AnalysisActions(c),
                                                MaxActions) \ {<<>>}}
  /\ view = NoView

\* any store and any upstream, and a key that is not in the registry
InitUnknownKey ==
  /\ asset \in UnknownKeys
  /\ \E oldL \in {NoFile, LegacyLiquidations},
        oldA \in {NoFile, LegacyActions},
        t \in {NoFile} \cup StoredLiquidations("wbtc") :
       files = [p \in Paths |->
                  IF p = _parquet_path(asset) THEN t
                  ELSE IF p = OldLiquidationsPath THEN oldL
                  ELSE IF p = OldActionsPath THEN oldA
                  ELSE NoFile]
  /\ upstream \in Upstreams
  /\ InitJob
  /\ InitNoAnalysis

\* the functions that take an asset key
NextUnknownKey ==
  \/ UpdateData
  \/ FetchUserBehavior
  \/ ClassifyUsers

\* liquidations of a store: two of one account and version at different
\* times, a later one below the minimum size, one of the other version and
\* one of another account
GroupedLiquidations ==
  { LiquidationRow(Tag(RawLiq("L1", 2000, 100000000, "0xA"), "V3")),
    LiquidationRow(Tag(RawLiq("L4", 1500, 200000000, "0xA"), "V3")),
    LiquidationRow(Tag(RawLiq("L5", 2500, 50000000, "0xA"), "V3")),
    LiquidationRow(Tag(RawLiq("L6", 1200, 300000000, "0xA"), "V2")),
    LiquidationRow(Tag(RawLiq("L3", 1000, 500000000, "0xB"), "V3")) }

\* a store that holds some of them, and an upstream that does not change
InitGroups ==
  /\ asset \in AssetKeys
  /\ \E s \in SortedTables(GroupedLiquidations, MaxList) \ {<<>>} :
       files = [p \in Paths |->
                  IF p = _parquet_path(asset) THEN Frame(s) ELSE NoFile]
  /\ \E d \in SortedTables(RawActions, MaxList) :
       upstream = Stable(<<>>, d)
  /\ InitJob
  /\ InitNoAnalysis

\* two update_data invocations of one asset, the second loading after the
\* first
NextTwoWriters ==
  \/ job = "none" /\ UpdateData
  \/ LiquidationsRequestFailed
  \/ LiquidationsErrors
  \/ LiquidationsPage
  \/ FetchNextSubgraph
  \/ FetchAllReturn
  \/ MergeAndSave
  \/ SecondLoad
  \/ SecondFetch
  \/ SecondMergeAndSave

\* calls of the analysis functions: each on the tables as they were loaded,
\* the summaries on the table classify_users returned
NextAnalysis ==
  \/ view = NoView /\ ClassifyUsers
  \/ view = NoView /\ GetSizeDistribution
  \/ view = NoView /\ GetMonthlyBySizeBracket
  \/ view = NoView /\ GetTopLiquidators
  \/ view = NoView /\ GetTopLiquidatees
  \/ view = NoView /\ GetKpiMetrics
  \/ GetBehaviorSummary
  \/ GetBehaviorBySize

\* update_data runs whose save is seen by a dashboard as the file system
\* shows it
NextConcurrent ==
  \/ UpdateData
  \/ LiquidationsRequestFailed
  \/ LiquidationsErrors
  \/ LiquidationsPage
  \/ FetchNextSubgraph
  \/ FetchAllReturn
  \/ SaveParquetOpen
  \/ SaveParquetClose
  \/ LoadDataDuringJob

\* update_data runs on a store that starts empty
Spec == Init /\ [][NextUpdate]_vars

\* user-behaviour runs on a store that holds liquidations
SpecActions == InitStored /\ [][NextBehavior]_vars

\* one job of either kind on any store, against any upstream
SpecOneJob == InitAny /\ [][NextOneJob]_vars

\* update_data runs on a store that holds liquidations, next to a dashboard
SpecConcurrent == InitStored /\ [][NextConcurrent]_vars

\* the analysis functions on tables of the store
SpecAnalysis == InitAnalysis /\ [][NextAnalysis]_vars

\* two update_data invocations on a store that starts empty
SpecTwoWriters == Init /\ [][NextTwoWriters]_vars

\* user-behaviour runs on a store with several liquidations per account
SpecGroups == InitGroups /\ [][NextBehavior]_vars

\* calls with a key that is not in the registry
SpecUnknownKey == InitUnknownKey /\ [][NextUnknownKey]_vars

\* =================================================================== claims
\* the persisted liquidation table of the asset
Stored == files[_parquet_path(asset)]

\* an update_data run has just saved
Saved == job = "update" /\ pc = "idle"

\* C1: when update_data merges a non-empty persisted table with a non-empty
\* fetched table and both hold a record with id X, the saved table holds
\* exactly one record with id X and it is a record of the fetched table.
MergePrecedence ==
  (Saved /\ ~IsEmpty(existing) /\ ~IsEmpty(new_df)) =>
    \A x \in IdsOf(existing.rows) \cap IdsOf(new_df.rows) :
      /\ Cardinality(RowsWithId(Stored.rows, x)) = 1
      /\ \A i \in RowsWithId(Stored.rows, x) :
           \E j \in RowsWithId(new_df.rows, x) : Stored.rows[i] = new_df.rows[j]

\* a merge in which the fetched record of an id differs from the persisted
\* one, and the saved table holds the fetched one
MergedOverExisting ==
  /\ Saved
  /\ \E i \in DOMAIN existing.rows, j \in DOMAIN new_df.rows :
       /\ existing.rows[i].id = new_df.rows[j].id
       /\ existing.rows[i].collateral_amount_raw
            # new_df.rows[j].collateral_amount_raw
       /\ \E k \in DOMAIN Stored.rows : Stored.rows[k] = new_df.rows[j]

\* C2: in every state reached by update_data runs from an empty store the
\* persisted liquidation table holds at most one record per id.
UniqueIds ==
  \A a \in AssetKeys :
    LET rows == files[_parquet_path(a)].rows
    IN  Cardinality(IdsOf(rows)) = Len(rows)

\* C3: every liquidation id in the persisted table before a step of an
\* update_data run is still in it after the step.
LiquidationsNeverDeleted ==
  [][\A a \in AssetKeys :
       IdsOf(files[_parquet_path(a)].rows)
         \subseteq IdsOf(files'[_parquet_path(a)].rows)]_vars

\* a run whose fetch gave up on transport failures, over a non-empty store:
\* the stored records are those of before the run
KeptAfterFailedFetch ==
  /\ Saved
  /\ ~IsEmpty(existing)
  /\ IsEmpty(new_df)
  /\ response.kind = "failure"
  /\ Stored.rows = existing.rows

\* C4: every action id in the persisted action table before a step of a
\* user-behaviour fetch run is still in it after the step.
ActionsNeverDeleted ==
  [][\A a \in AssetKeys :
       IdsOf(files[_actions_parquet_path(a)].rows)
         \subseteq IdsOf(files'[_actions_parquet_path(a)].rows)]_vars

\* C5: no record with a zero or negative collateral_amount_btc is in the
\* table _raw_to_dataframe returned, nor in the persisted liquidation table.
NoNonPositiveAmounts ==
  /\ \A i \in DOMAIN new_df.rows :
       new_df.rows[i].collateral_amount_btc.num > 0
  /\ \A a \in AssetKeys :
       \A i \in DOMAIN files[_parquet_path(a)].rows :
         files[_parquet_path(a)].rows[i].collateral_amount_btc.num > 0

\* a run that fetched a record of amount zero or less next to a positive one
\* and saved
NonPositiveFetched ==
  /\ Saved
  /\ \E i \in DOMAIN all_raw : all_raw[i].amount <= 0
  /\ ~IsEmpty(new_df)
  /\ Stored.rows = new_df.rows

\* the records the fetch in progress has accumulated (all_liquidations of
\* _fetch_liquidations_from_endpoint, all_events of _fetch_user_events)
Acc == IF job = "update" THEN all_liquidations ELSE all_events

\* the pause between two pages of the fetch in progress
Delay == IF job = "update" THEN RATE_LIMIT_DELAY ELSE UA_RATE_LIMIT_DELAY

\* C6: at each page request the offset is the number of records accumulated,
\* a multiple of the page size; a request follows a page only if the page
\* was full; after a short or empty page the fetch has returned and the
\* records it returns end with that page.
PaginationOffsets ==
  /\ pc = "request" =>
       /\ skip = Len(Acc)
       /\ skip % BATCH_SIZE = 0
       /\ response.kind = "page" => Len(response.page) = BATCH_SIZE
  /\ (pc = "returned" /\ response.kind = "page") =>
       /\ Len(response.page) < BATCH_SIZE
       /\ Len(Acc) = skip + Len(response.page)
       /\ \A i \in DOMAIN response.page : Acc[skip + i].id = response.page[i].id

\* a fetch that returned on a short page after a full one
ShortPageAfterFullPage ==
  /\ pc = "returned"
  /\ response.kind = "page"
  /\ skip = BATCH_SIZE
  /\ Len(response.page) = 1
  /\ Len(Acc) = BATCH_SIZE + 1

\* C7: a transport failure on attempt k < 3 is followed by a pause of k times
\* the delay and another attempt at the same offset; a failure of the third
\* attempt makes the fetch return; either way the accumulated records are
\* left as they were.
RetryBudget ==
  [][(pc = "request" /\ response'.kind = "failure") =>
       /\ attempt <= MAX_RETRIES
       /\ Acc' = Acc
       /\ skip' = skip
       /\ IF attempt < MAX_RETRIES
          THEN /\ pc' = "request"
               /\ attempt' = attempt + 1
               /\ sleep' = Delay * attempt
          ELSE pc' = "returned"]_vars

\* a fetch that gave up on its second page and returned the first
GaveUpWithFirstPage ==
  /\ pc = "returned"
  /\ response.kind = "failure"
  /\ attempt = MAX_RETRIES
  /\ skip = BATCH_SIZE
  /\ Len(Acc) = BATCH_SIZE

\* C8: a response that carries an error list makes the fetch return at once,
\* with the accumulated records left as they were.
ErrorsEndFetch ==
  [][(pc = "request" /\ response'.kind = "errors") =>
       /\ pc' = "returned"
       /\ Acc' = Acc
       /\ attempt' = attempt]_vars

\* a fetch whose second page request was answered by an error list on its
\* first attempt
ErrorsOnSecondPage ==
  /\ pc = "returned"
  /\ response.kind = "errors"
  /\ attempt = 1
  /\ skip = BATCH_SIZE
  /\ Len(Acc) = BATCH_SIZE

\* the result list of the query of the fetch in progress on a stable upstream
ResultList ==
  IF job = "update" THEN TagAll(upstream.liquidates, version)
  ELSE UserEventsOf(QueryOf(groups[1]))

\* C9: on an upstream that does not change, no request is issued beyond the
\* end of the result list (the offset grows by a page with each full page, so
\* the loop ends after at most N / page size + 1 pages), and a fetch that
\* returns on a page returns the result list: every matching record, once.
CompleteFetch ==
  upstream.stable =>
    /\ pc = "request" => skip <= Len(ResultList)
    /\ (pc = "returned" /\ response.kind = "page") => Acc = ResultList

\* a result list of exactly one page: the second request got an empty page
ExactMultipleFetched ==
  /\ upstream.stable
  /\ pc = "returned"
  /\ response = [kind |-> "page", page |-> <<>>]
  /\ skip = BATCH_SIZE
  /\ Len(ResultList) = BATCH_SIZE
  /\ Acc = ResultList

\* C10: a load (every step taken from idle is one) for an asset that has no
\* file of the current name and no legacy file that applies to it returns
\* the empty table.
MissingDataIsEmpty ==
  [][pc = "idle" =>
       /\ ( /\ lastLoad'.fn = "load_parquet"
            /\ ~Exists(files, _parquet_path(asset))
            /\ ~(asset = "wbtc" /\ Exists(files, OldLiquidationsPath)) )
          => lastLoad'.df = EmptyFrame
       /\ ( /\ lastLoad'.fn = "load_user_actions"
            /\ ~Exists(files, _actions_parquet_path(asset))
            /\ ~(asset = "wbtc" /\ Exists(files, OldActionsPath)) )
          => lastLoad'.df = EmptyFrame]_vars

\* a load of the liquidations of cbbtc next to a legacy file, which is a
\* file of wbtc
LoadedBesideLegacyFile ==
  /\ lastLoad = [fn |-> "load_parquet", df |-> EmptyFrame]
  /\ asset = "cbbtc"
  /\ ~Exists(files, _parquet_path(asset))
  /\ Exists(files, OldLiquidationsPath)

\* C11: a load that runs while update_data saves returns the complete table
\* of before the save or the complete table being saved.
SaveIsAtomic ==
  (lastLoad.fn = "load_data" /\ pc = "saving") =>
    lastLoad.df \in {existing} \cup Combined(existing, new_df)

\* C12: a load (every step taken from idle is one) returns the contents of
\* the current-name file of the asset whenever that file exists, and the
\* empty table when it does not and the asset is not wbtc, whatever legacy
\* files there are.
LegacyOnlyForWbtc ==
  [][pc = "idle" =>
       /\ lastLoad'.fn \in {"load_parquet", "load_data"} =>
            /\ Exists(files, _parquet_path(asset)) =>
                 lastLoad'.df = RenameLegacyColumn(files[_parquet_path(asset)])
            /\ (~Exists(files, _parquet_path(asset)) /\ asset # "wbtc") =>
                 lastLoad'.df = EmptyFrame
       /\ lastLoad'.fn = "load_user_actions" =>
            /\ Exists(files, _actions_parquet_path(asset)) =>
                 lastLoad'.df = files[_actions_parquet_path(asset)]
            /\ (~Exists(files, _actions_parquet_path(asset)) /\ asset # "wbtc")
                 => lastLoad'.df = EmptyFrame]_vars

\* load_data of wbtc with both files on disk returned the current-name
\* file, whose contents are not those of the legacy file
CurrentFileRead ==
  /\ lastLoad.fn = "load_data"
  /\ asset = "wbtc"
  /\ Exists(files, _parquet_path(asset))
  /\ Exists(files, OldLiquidationsPath)
  /\ lastLoad.df = files[_parquet_path(asset)]
  /\ lastLoad.df # RenameLegacyColumn(files[OldLiquidationsPath])

\* the rows of the action table handed to classify_users that are actions of
\* the liquidatee of liq in the closed window of `hours` hours before it
InWindow(liq, hours) ==
  {j \in DOMAIN actions_df.rows :
     /\ actions_df.rows[j].account = liq.liquidatee
     /\ liq.timestamp - hours * 3600 <= actions_df.rows[j].timestamp
     /\ actions_df.rows[j].timestamp <= liq.timestamp}

\* those of one action_type
InWindowOfType(liq, hours, action_type) ==
  {j \in InWindow(liq, hours) : actions_df.rows[j].action_type = action_type}

\* the liquidations of liq_df that qualify for the call in view
Qualifying ==
  SelectRows(liq_df.rows,
    {i \in DOMAIN liq_df.rows :
       liq_df.rows[i].collateral_amount_btc.num * view.args.min_wbtc.den
         >= view.args.min_wbtc.num * liq_df.rows[i].collateral_amount_btc.den})

\* C13: classify_users returns one row per qualifying liquidation, in their
\* order, and the behavior of each is the one of the four that the presence
\* of deposits and of repays in its window calls for.
ExactlyOneBehavior ==
  view.fn = "classify_users" =>
    /\ Len(view.out) = Len(Qualifying)
    /\ \A i \in DOMAIN view.out :
         LET r == view.out[i]
             d == InWindowOfType(r, view.args.window_hours, "deposit") # {}
             p == InWindowOfType(r, view.args.window_hours, "repay") # {}
         IN  /\ r.id = Qualifying[i].id
             /\ r.behavior \in {"Passive", "Deposit Only", "Repay Only",
                                 "Deposit + Repay"}
             /\ r.behavior = "Deposit + Repay" <=> (d /\ p)
             /\ r.behavior = "Deposit Only" <=> (d /\ ~p)
             /\ r.behavior = "Repay Only" <=> (~d /\ p)
             /\ r.behavior = "Passive" <=> (~d /\ ~p)

\* one call classified three liquidations in three ways
ThreeBehaviors ==
  /\ view.fn = "classify_users"
  /\ \E i, j, k \in DOMAIN view.out :
       /\ view.out[i].behavior = "Deposit + Repay"
       /\ view.out[j].behavior = "Deposit Only"
       /\ view.out[k].behavior = "Passive"

RECURSIVE UsdOf(_)
\* the sum of amount_usd over the rows J of the action table
UsdOf(J) ==
  IF J = {} THEN 0
  ELSE LET j == CHOOSE k \in J : TRUE
       IN  actions_df.rows[j].amount_usd + UsdOf(J \ {j})

\* C14: the deposits and repays classify_users counts and sums for a
\* liquidation are exactly the actions of its liquidatee with
\* event_time - window_seconds <= timestamp <= event_time.
ClosedWindow ==
  view.fn = "classify_users" =>
    \A i \in DOMAIN view.out :
      LET r == view.out[i]
          d == InWindowOfType(r, view.args.window_hours, "deposit")
          p == InWindowOfType(r, view.args.window_hours, "repay")
      IN  /\ r.deposit_count = Cardinality(d)
          /\ r.repay_count = Cardinality(p)
          /\ r.deposit_usd = UsdOf(d)
          /\ r.repay_usd = UsdOf(p)

\* the table holds a deposit of the liquidatee on the early edge of the
\* window, one a second before it and a repay at the liquidation itself: the
\* first and the last are counted
EdgesCounted ==
  /\ view.fn = "classify_users"
  /\ view.args.window_hours = 48
  /\ {actions_df.rows[j].id : j \in DOMAIN actions_df.rows} = {"A1", "A2", "A3"}
  /\ \E i \in DOMAIN view.out :
       /\ view.out[i].id = "L1"
       /\ view.out[i].deposit_count = 1
       /\ view.out[i].deposit_usd = 5000
       /\ view.out[i].repay_count = 1

DepositedOwnCollateral ==
  view.fn = "classify_users" =>
    \A i \in DOMAIN view.out :
      LET r == view.out[i]
          d == InWindowOfType(r, view.args.window_hours, "deposit")
      IN  r.deposited_collateral <=>
            \E j \in d : actions_df.rows[j].asset_address
                            = r.collateral_asset_address

\* C17: hours_before_last_action of a classified liquidation is present iff
\* an action of its liquidatee lies in its window, and is then the time from
\* the latest of them to the liquidation, in hours.
HoursSinceLastAction ==
  view.fn = "classify_users" =>
    \A i \in DOMAIN view.out :
      LET r == view.out[i]
          h == r.hours_before_last_action
          J == InWindow(r, view.args.window_hours)
      IN  /\ h.present <=> J # {}
          /\ h.present =>
               /\ h.den = 3600
               /\ \E j \in J :
                    /\ h.num = r.timestamp - actions_df.rows[j].timestamp
                    /\ \A k \in J : actions_df.rows[k].timestamp
                                       <= actions_df.rows[j].timestamp

\* a liquidation with a deposit in its window and a repay at its own
\* instant: the hours are counted from the repay
HoursFromLatest ==
  /\ view.fn = "classify_users"
  /\ \E i \in DOMAIN view.out :
       /\ view.out[i].id = "L1"
       /\ view.out[i].deposit_count = 1
       /\ view.out[i].repay_count = 1
       /\ view.out[i].hours_before_last_action
            = [present |-> TRUE, num |-> 0, den |-> 3600]

\* the events the rollup in view counts in bracket b
CountedIn(b) ==
  LET rows == SelectSeq(view.out,
                LAMBDA r : r.size_bracket = view.args.labels[b])
  IN  SumUsd(rows, "count")

\* C18: the size-bracket rollups count in each bracket the liquidations whose
\* amount is at least its lower edge and less than its upper edge.
HalfOpenBrackets ==
  view.fn \in {"get_size_distribution", "get_monthly_by_size_bracket"} =>
    \A b \in DOMAIN Bins :
      CountedIn(b) =
        Cardinality(
          {i \in DOMAIN liq_df.rows :
             LET v == liq_df.rows[i].collateral_amount_btc
             IN  /\ v.num * Bins[b].den >= Bins[b].num * v.den
                 /\ b < Len(Bins) =>
                      v.num * Bins[b + 1].den < Bins[b + 1].num * v.den})

\* the liquidations of the table whose column key holds address a
EventsOf(key, a) == {i \in DOMAIN liq_df.rows : liq_df.rows[i][key] = a}

RECURSIVE LiquidatedUsd(_)
\* the sum of collateral_amount_usd over the rows I of the liquidation table
LiquidatedUsd(I) ==
  IF I = {} THEN 0
  ELSE LET i == CHOOSE k \in I : TRUE
       IN  liq_df.rows[i].collateral_amount_usd + LiquidatedUsd(I \ {i})

\* C19: a ranking asked for N addresses has at most N rows, one per address,
\* each with the number of the address's events and the sum of their USD
\* value, in non-increasing order of that sum, and no address left out has a
\* greater sum than one that is listed.
TopRanking ==
  view.fn \in {"get_top_liquidators", "get_top_liquidatees"} =>
    LET key == view.args.key
        out == view.out
        addresses == {liq_df.rows[i][key] : i \in DOMAIN liq_df.rows}
        listed == {out[k][key] : k \in DOMAIN out}
    IN  /\ Len(out) <= view.args.top_n
        /\ Len(out) < view.args.top_n => listed = addresses
        /\ listed \subseteq addresses
        /\ \A k, l \in DOMAIN out : k # l => out[k][key] # out[l][key]
        /\ \A k \in DOMAIN out :
             /\ out[k].count = Cardinality(EventsOf(key, out[k][key]))
             /\ out[k].total_usd = LiquidatedUsd(EventsOf(key, out[k][key]))
        /\ \A k, l \in DOMAIN out :
             k < l => out[k].total_usd >= out[l].total_usd
        /\ \A a \in addresses \ listed : \A k \in DOMAIN out :
             LiquidatedUsd(EventsOf(key, a)) <= out[k].total_usd

\* liquidator 0xA has three events of 300 USD in all and 0xB two of 500 USD:
\* the ranking of one address lists 0xB alone
TopOneOfTwo ==
  /\ view.fn = "get_top_liquidators"
  /\ view.args.top_n = 1
  /\ Cardinality(EventsOf("liquidator", "0xA")) = 3
  /\ LiquidatedUsd(EventsOf("liquidator", "0xA")) = 300
  /\ Len(view.out) = 1
  /\ view.out[1].liquidator = "0xB"
  /\ view.out[1].total_usd = 500
  /\ view.out[1].count = 2

\* every figure of the KPI summary in view is zero
KpiAllZero ==
  /\ \A k \in {"total_liquidations", "unique_liquidators",
                "unique_liquidatees", "v2_count", "v3_count"} :
       view.out[k] = 0
  /\ \A k \in {"total_btc", "total_usd", "avg_liquidation_usd",
                "max_liquidation_usd"} :
       view.out[k].num = 0

\* the KPI summary of an empty liquidation table is all zeros
KpiZeroOnEmpty ==
  (view.fn = "get_kpi_metrics" /\ IsEmpty(liq_df)) => KpiAllZero

\* the behavior summary in view has its totals, and they are zero
SummaryAllZero ==
  /\ {"total", "passive", "deposit_only", "repay_only", "both",
      "deposited_collateral_count"} \subseteq DOMAIN view.out
  /\ \A k \in {"total", "passive", "deposit_only", "repay_only", "both",
                "deposited_collateral_count"} :
       view.out[k] = 0

\* C20: on an empty liquidation table get_kpi_metrics returns zero for every
\* count, sum, mean, max and per-version count, and the behavior summary
\* returns zero-valued totals.
ZeroOnEmpty ==
  IsEmpty(liq_df) =>
    /\ view.fn = "get_kpi_metrics" => KpiAllZero
    /\ view.fn = "get_behavior_summary" => SummaryAllZero

\* C21: for a key that is not in the registry get_asset_config raises, and a
\* call of update_data, fetch_user_actions or classify_users with it ends
\* with that error: no request is issued and no file is created or changed.
UnknownKeyFailsFast ==
  [][asset \notin DOMAIN ASSETS =>
       /\ get_asset_config(asset) = KeyError
       /\ files' = files
       /\ pc' # "request"
       /\ response' = response
       /\ job' # job => pc' = "raised"
       /\ view' # view => view'.out = KeyError]_vars

\* update_data was called with an unknown key next to the legacy file and a
\* file of that key: it read the file, raised, and left both as they were
UpdateRaisedKeyError ==
  /\ asset \notin DOMAIN ASSETS
  /\ job = "update"
  /\ pc = "raised"
  /\ lastLoad.fn = "load_parquet"
  /\ ~IsEmpty(lastLoad.df)
  /\ lastLoad.df = files[_parquet_path(asset)]
  /\ files[OldLiquidationsPath] = LegacyLiquidations

\* both update_data invocations have saved
BothSaved == Saved /\ second.pc = "saved"

\* the ids the two invocations fetched
FetchedByBoth == IdsOf(new_df.rows) \cup IdsOf(second.new_df.rows)

\* C22: two update_data invocations of one asset that run one after the other
\* leave a table that holds the ids both fetched; when both load before
\* either saves, an id one of them fetched and saved can be missing.
SerializedWritersKeepBoth ==
  BothSaved =>
    \/ second.overlap
    \/ FetchedByBoth \subseteq IdsOf(Stored.rows)

\* both invocations loaded before either saved, each fetched and saved an id
\* of its own, and the table lacks the id the first one saved
LostUpdate ==
  /\ BothSaved
  /\ second.overlap
  /\ ~IsEmpty(new_df)
  /\ ~IsEmpty(second.new_df)
  /\ \E x \in IdsOf(new_df.rows) : x \notin IdsOf(Stored.rows)

\* the records of a table
Records(df) == {df.rows[i] : i \in DOMAIN df.rows}

\* C23: an update_data run whose fetched table holds the records of the
\* persisted table saves those records: none is added, none is lost, and no
\* id is held twice.
SelfMergeIsIdentity ==
  (Saved /\ Records(new_df) = Records(existing)
         /\ Len(new_df.rows) = Len(existing.rows)) =>
    /\ Records(Stored) = Records(existing)
    /\ Len(Stored.rows) = Len(existing.rows)
    /\ Cardinality(IdsOf(Stored.rows)) = Len(Stored.rows)

\* C24: every page request that succeeds, in the liquidation fetcher and in
\* the user-event fetcher, is followed by a pause of the fixed delay, the
\* request answered by the last page of the pagination included.
DelayAfterEachPage ==
  [][(pc = "request" /\ response'.kind = "page") => sleep' = Delay]_vars

\* C25: after an update_data run, whichever branch it took, the persisted
\* liquidation table is ordered by timestamp descending, whatever the order
\* in which the subgraphs returned the records.
SavedNewestFirst == Saved => IsSortedDesc(Stored.rows)

\* a merge run whose fetch returned an older record before a newer one
MergedOutOfOrderFetch ==
  /\ Saved
  /\ ~IsEmpty(existing)
  /\ Len(all_raw) = 2
  /\ all_raw[1].timestamp < all_raw[2].timestamp
  /\ Len(new_df.rows) = 2
  /\ Len(Stored.rows) = 2
  /\ Stored.rows[1].timestamp > Stored.rows[2].timestamp

\* the behavior of a liquidation with d deposits and p repays in its window
BehaviorOf(d, p) ==
  IF d > 0 /\ p > 0 THEN "Deposit + Repay"
  ELSE IF d > 0 THEN "Deposit Only"
  ELSE IF p > 0 THEN "Repay Only"
  ELSE "Passive"

\* C26: classify_users returns one row for each liquidation whose amount is
\* min_size or more and none for a smaller one; the behavior and counts of a
\* row are those of the window of its own liquidation, and the row is the one
\* classify_users returns for that liquidation alone.
IndependentWindows ==
  view.fn = "classify_users" =>
    /\ \A i \in DOMAIN liq_df.rows :
         LET liq == liq_df.rows[i]
             emitted == {k \in DOMAIN view.out : view.out[k].id = liq.id}
         IN  IF liq.collateral_amount_btc.num * view.args.min_wbtc.den
                  >= view.args.min_wbtc.num * liq.collateral_amount_btc.den
             THEN Cardinality(emitted) = 1
             ELSE emitted = {}
    /\ \A k \in DOMAIN view.out :
         LET r == view.out[k]
             d == Cardinality(
                    InWindowOfType(r, view.args.window_hours, "deposit"))
             p == Cardinality(
                    InWindowOfType(r, view.args.window_hours, "repay"))
             alone == SelectRows(liq_df.rows,
                        {i \in DOMAIN liq_df.rows : liq_df.rows[i].id = r.id})
         IN  /\ r.deposit_count = d
             /\ r.repay_count = p
             /\ r.behavior = BehaviorOf(d, p)
             /\ <<r>> = classify_users(Frame(alone), actions_df, asset,
                                       view.args.min_wbtc,
                                       view.args.window_hours)

\* two liquidations of one account twenty seconds apart, a third of exactly
\* the minimum size and a fourth below it: the deposit on the early edge of
\* the later window is counted in both rows of the account, the repay at the
\* later liquidation in one
OverlappingWindows ==
  /\ view.fn = "classify_users"
  /\ view.args = [min_wbtc |-> [num |-> 1, den |-> 1], window_hours |-> 48]
  /\ {liq_df.rows[i].id : i \in DOMAIN liq_df.rows} = {"L1", "L3", "L4", "L5"}
  /\ {actions_df.rows[j].id : j \in DOMAIN actions_df.rows} = {"A1", "A3"}
  /\ {view.out[k].id : k \in DOMAIN view.out} = {"L1", "L3", "L4"}
  /\ \E k, l \in DOMAIN view.out :
       /\ view.out[k].id = "L1"
       /\ view.out[l].id = "L3"
       /\ view.out[k].deposit_count = 1
       /\ view.out[l].deposit_count = 1
       /\ view.out[k].repay_count = 1
       /\ view.out[l].repay_count = 0

\* C27: a load (every step taken from idle is one) that reads a legacy-named
\* file leaves the current-name file of the asset on disk, for liquidations
\* with the column named collateral_amount_btc, so that no later load reads
\* the legacy file; this holds for the liquidation and the action loaders.
LegacyReadOnce ==
  [][pc = "idle" =>
       /\ ( /\ lastLoad'.fn \in {"load_parquet", "load_data"}
            /\ ~Exists(files, _parquet_path(asset))
            /\ asset = "wbtc"
            /\ Exists(files, OldLiquidationsPath) )
          => /\ Exists(files', _parquet_path(asset))
             /\ files'[_parquet_path(asset)].amount_col
                  = "collateral_amount_btc"
       /\ ( /\ lastLoad'.fn = "load_user_actions"
            /\ ~Exists(files, _actions_parquet_path(asset))
            /\ asset = "wbtc"
            /\ Exists(files, OldActionsPath) )
          => Exists(files', _actions_parquet_path(asset))]_vars

\* C28: when fetch_user_actions starts, every stored liquidation of at least
\* min_wbtc whose version the asset is served on belongs to a group whose
\* queried range holds the whole window of window_hours before that
\* liquidation, so the query matches every upstream action of the liquidatee
\* in that window.
QueriedRangeCoversWindow ==
  [][(pc = "idle" /\ job' = "behavior" /\ lastLoad'.fn = "load_parquet") =>
       \A i \in DOMAIN lastLoad'.df.rows :
         LET liq == lastLoad'.df.rows[i]
             from == liq.timestamp - window_hours * 3600
         IN  ( /\ liq.collateral_amount_btc.num * min_wbtc.den
                    >= min_wbtc.num * liq.collateral_amount_btc.den
               /\ Serves(ASSETS[asset], liq.version) ) =>
               \E k \in DOMAIN groups' :
                 LET q == QueryOf(groups'[k])
                 IN  /\ groups'[k].liquidatee = liq.liquidatee
                     /\ groups'[k].version = liq.version
                     /\ q.ts_from <= from
                     /\ liq.timestamp <= q.ts_to
                     /\ \A e \in RawActions :
                          ( /\ e.account = liq.liquidatee
                            /\ from <= e.timestamp
                            /\ e.timestamp <= liq.timestamp ) =>
                            e \in Matching(q)]_vars

\* a run over a store with two liquidations of one account and version, 500
\* seconds apart, and a later one below the minimum size: one group, whose
\* range ends with the later of the two
OneQueryForTwoLiquidations ==
  /\ job = "behavior"
  /\ pc = "request"
  /\ {lastLoad.df.rows[i].id : i \in DOMAIN lastLoad.df.rows}
       = {"L1", "L4", "L5"}
  /\ Len(groups) = 1
  /\ QueryOf(groups[1]).ts_from = 1500 - window_hours * 3600
  /\ QueryOf(groups[1]).ts_to = 2000

\* C29: the bracket counts get_behavior_by_size returns for a table that
\* classify_users returned with a minimum size of 1 sum to the number of
\* rows of that table: every classified liquidation is in one bracket.
EveryClassifiedInOneBracket ==
  ( /\ view.fn = "get_behavior_by_size"
    /\ view.selected.min_wbtc = [num |-> 1, den |-> 1] ) =>
    SumUsd(view.out, "count") = Len(view.args.classified_df)

\* C30: in every row classify_users returns for an action table of deposits
\* and repays, hours_before_last_action is absent exactly when the behavior
\* is Passive, deposit_count + repay_count is the number of actions of the
\* liquidatee in the window, and a present hours_before_last_action is at
\* least 0 and at most window_hours.
RowFieldsAgree ==
  ( /\ view.fn = "classify_users"
    /\ \A j \in DOMAIN actions_df.rows :
         actions_df.rows[j].action_type \in {"deposit", "repay"} ) =>
    \A i \in DOMAIN view.out :
      LET r == view.out[i]
          h == r.hours_before_last_action
      IN  /\ ~h.present <=> r.behavior = "Passive"
          /\ r.deposit_count + r.repay_count
               = Cardinality(InWindow(r, view.args.window_hours))
          /\ h.present =>
               /\ 0 <= h.num
               /\ h.num <= view.args.window_hours * h.den

\* one call returned a liquidation whose only action lies on the early edge
\* of its window, window_hours before it, and a Passive one without hours
HoursAtWindowEdge ==
  /\ view.fn = "classify_users"
  /\ \E i, k \in DOMAIN view.out :
       /\ view.out[i].deposit_count + view.out[i].repay_count = 1
       /\ view.out[i].hours_before_last_action
            = [present |-> TRUE, num |-> view.args.window_hours * 3600,
               den |-> 3600]
       /\ view.out[k].behavior = "Passive"
       /\ ~view.out[k].hours_before_last_action.present

====
